---- MODULE Spec2Model ----
(***************************************************************************)
(* A model of sunstorm.py: the argument checks of main, the restore and    *)
(* boot pipelines (prep_restore, prep_boot), the command gateway (execute) *)
(* and the image synthesis (linux_hfsplus_sync).                           *)
(*                                                                         *)
(* Strings whose characters the code inspects (board configs, file and     *)
(* directory names) are sequences of one-character strings; every other    *)
(* string is a TLA+ string.                                                *)
(***************************************************************************)
EXTENDS Integers, Sequences, FiniteSets, TLC

\* ------------------------------------------------------------------ bounds

\* Longest board-config string given on the command line.
MaxBoardLen == 2

\* How many times the harness specification SpecSync runs the synthesis.
MaxRuns == 2

\* ----------------------------------------------------------------- strings

\* Python's None.
None == "None"

Uppers == <<"A","B","C","D","E","F","G","H","I","J","K","L","M",
            "N","O","P","Q","R","S","T","U","V","W","X","Y","Z">>

Lowers == <<"a","b","c","d","e","f","g","h","i","j","k","l","m",
            "n","o","p","q","r","s","t","u","v","w","x","y","z">>

\* str.lower() on one character: only A..Z change.
LowerChar(c) ==
    IF \E i \in 1..Len(Uppers) : Uppers[i] = c
    THEN Lowers[CHOOSE i \in 1..Len(Uppers) : Uppers[i] = c]
    ELSE c

\* str.lower()
Lower(s) == [i \in 1..Len(s) |-> LowerChar(s[i])]

\* The TLA+ string spelled by a sequence of characters.
RECURSIVE Str(_)
Str(cs) == IF cs = <<>> THEN "" ELSE Head(cs) \o Str(Tail(cs))

\* str.endswith(suffix)
EndsWith(s, suffix) ==
    /\ Len(suffix) <= Len(s)
    /\ SubSeq(s, Len(s) - Len(suffix) + 1, Len(s)) = suffix

\* str.endswith((s1, s2, ...)): any of the suffixes
EndsWithAny(s, suffixes) == \E x \in suffixes : EndsWith(s, x)

\* All sequences over S of length 1..n.
SeqsUpTo(S, n) == UNION {[1..k -> S] : k \in 1..n}

\* ---------------------------------------------------------------- manifest

\* Component names the two pipelines ask the manifest for.
Components == {"RestoreRamDisk", "RestoreKernelCache", "iBSS", "iBEC",
               "DeviceTree", "StaticTrustCache", "KernelCache"}

\* Path of component comp in the bundle of the board with tag t.
CompPath(t, comp) == t \o "/" \o comp

\* One BuildIdentity: a board key and its components, all but those of absent.
Identity(key, t, absent) ==
    [board |-> key, comps |-> [c \in Components \ absent |-> CompPath(t, c)]]

\* The same lookup matching the board key exactly.
RECURSIVE get_comp_exact(_, _, _)
get_comp_exact(m, board, comp) ==
    IF m = <<>> THEN None
    ELSE IF Head(m).board = board
         THEN (IF comp \in DOMAIN Head(m).comps THEN Head(m).comps[comp] ELSE None)
         ELSE get_comp_exact(Tail(m), board, comp)

\* Manifest.get_comp(board, comp): the first identity whose board key equals
\* board up to letter case; its path of comp, None when the board or the
\* component is absent.
RECURSIVE get_comp(_, _, _)
get_comp(m, board, comp) ==
    IF m = <<>> THEN None
    ELSE IF Lower(Head(m).board) = Lower(board)
         THEN (IF comp \in DOMAIN Head(m).comps THEN Head(m).comps[comp] ELSE None)
         ELSE get_comp(Tail(m), board, comp)

\* ------------------------------------------------------------ staging tree

\* File and directory names, as character sequences.
usr == <<"u","s","r">>

sbin == <<"s","b","i","n">>

bin == <<"b","i","n">>

libexec == <<"l","i","b","e","x","e","c">>

cabin == <<"c","a","b","i","n">>

lib == <<"l","i","b">>

local == <<"l","o","c","a","l">>

dotcfg == <<".","c","f","g">>

tool == <<"t","o","o","l">>

dotrc == <<".","r","c">>

asr == <<"a","s","r">>

restored_external == <<"r","e","s","t","o","r","e","d","_","e","x","t","e","r","n","a","l">>

\* The value of a sequence of octal digits, as Python reads 0o... .
RECURSIVE OctVal(_)
OctVal(ds) == IF ds = <<>> THEN 0 ELSE 8 * OctVal(SubSeq(ds, 1, Len(ds) - 1)) + ds[Len(ds)]

\* The value of a sequence of decimal digits: int("755").
RECURSIVE DecVal(_)
DecVal(ds) == IF ds = <<>> THEN 0 ELSE 10 * DecVal(SubSeq(ds, 1, Len(ds) - 1)) + ds[Len(ds)]

DigitChars == <<"0","1","2","3","4","5","6","7">>

\* The string of a sequence of octal digits.
RECURSIVE DigitStr(_)
DigitStr(ds) == IF ds = <<>> THEN "" ELSE DigitChars[Head(ds) + 1] \o DigitStr(Tail(ds))

\* st_mode file-type bits.
S_IFREG == OctVal(<<1,0,0,0,0,0>>)

S_IFDIR == OctVal(<<0,4,0,0,0,0>>)

S_IFLNK == OctVal(<<1,2,0,0,0,0>>)

\* A node of the staging tree: what lstat and readlink report, and for a
\* symlink what following it finds ("file", "dir" or "none" when dangling).
\* A directory that a symlink resolves to holds no entries.
DirNode == [kind |-> "dir", mode |-> S_IFDIR + OctVal(<<7,5,5>>), target |-> "", to |-> "dir"]

FileNode(perm) == [kind |-> "file", mode |-> S_IFREG + OctVal(perm), target |-> "", to |-> "file"]

LinkNode(target, to) == [kind |-> "link", mode |-> S_IFLNK + OctVal(<<7,7,7>>), target |-> target, to |-> to]

\* The path above p; paths are sequences of names, <<>> the staging root.
Parent(p) == SubSeq(p, 1, Len(p) - 1)

\* Characters of os.path.relpath(p, root) for a path below the root.
RECURSIVE JoinChars(_)
JoinChars(p) ==
    IF p = <<>> THEN <<>>
    ELSE IF Len(p) = 1 THEN p[1]
    ELSE p[1] \o <<"/">> \o JoinChars(Tail(p))

\* os.path.relpath(file, f'{work}/ramdisk'): "." for the root itself.
relpath(p) == IF p = <<>> THEN <<".">> ELSE JoinChars(p)

\* os.path.dirname of a relative path.
dirname(p) == JoinChars(Parent(p))

\* Lines 126-127 and 138-139: a leading separator is added when missing.
WithSlash(cs) == IF Len(cs) > 0 /\ cs[1] = "/" THEN cs ELSE <<"/">> \o cs

\* glob's _ishidden: a name beginning with a dot is matched by no * or **.
ishidden(name) == name[1] = "."

\* os.path.isdir: follows symlinks.
isdir(node) == node.kind = "dir" \/ (node.kind = "link" /\ node.to = "dir")

\* os.path.islink
islink(node) == node.kind = "link"

\* glob.iglob(f'{work}/ramdisk/*/**/', recursive=True): every directory
\* (symlinks to directories included) below the root with no hidden name on
\* its path.
GlobDirs(tree) ==
    {p \in DOMAIN tree : /\ p # <<>>
                         /\ isdir(tree[p])
                         /\ \A i \in 1..Len(p) : ~ishidden(p[i])}

\* glob.iglob(f'{work}/ramdisk/**', recursive=True): the root and every
\* entry below it with no hidden name on its path.
GlobAll(tree) ==
    {p \in DOMAIN tree : \A i \in 1..Len(p) : ~ishidden(p[i])}

\* The entries glob may yield next: glob walks depth first and yields a
\* directory before what is below it (the order among siblings is that of
\* os.scandir, unspecified). at is the entry yielded last.
RECURSIVE GlobNext(_, _)
GlobNext(todo, at) ==
    IF <<>> \in todo THEN {<<>>}
    ELSE LET kids == {p \in todo : Parent(p) = at}
         IN IF kids # {} THEN kids
            ELSE IF at = <<>> THEN {} ELSE GlobNext(todo, Parent(at))

\* oct(stat.st_mode)[-3:]: the last three octal digits.
Last3(mode) == <<(mode \div 64) % 8, (mode \div 8) % 8, mode % 8>>

\* Lines 134 and 144-146: the digits handed to hfsplus chmod for an entry
\* with st_mode mode under the directory whose relative path is dir.
permission(dir, mode) ==
    IF EndsWithAny(dir, {bin, sbin, libexec}) /\ DecVal(Last3(mode)) < 755
    THEN <<1,0,0,7,5,5>>
    ELSE Last3(mode)

\* ----------------------------------------------------------- configuration

\* Characters a board config is typed with.
BoardAlphabet == {"a", "A", "1"}

\* The board's key in the manifest, and the components the manifest lacks
\* for the board.
BoardEntries ==
    {<<<<"A", "1">>, {}>>, <<<<"a", "1">>, {}>>}
        \cup {<<<<"a", "1">>, {comp}>> : comp \in Components}

\* The manifests of the bundles: another board's identity, then the board's.
Manifests ==
    {<<Identity(<<"b", "1">>, "other", {}), Identity(e[1], "fw", e[2])>> :
        e \in BoardEntries}

\* The four decryption parameters of api.get_keys.
KeyNames == {"ibss_iv", "ibss_key", "ibec_iv", "ibec_key"}

\* What the key provider knows: everything, nothing, all but one parameter.
KeySets == {KeyNames, {}, KeyNames \ {"ibec_key"}, KeyNames \ {"ibss_iv"}}

\* --extra-ramdisk: not given, an existing x.tar.gz, a path that does not
\* exist, an existing file of another name.
ExtraArgs == {"none", "ok", "missing", "badname"}

\* Lines 77-86 and 508-522: main gets as far as entering a pipeline.
Enters(c) ==
    /\ c.deps /\ c.ipsw /\ c.blob
    /\ c.mode = "boot" => c.identifier
    /\ c.extra \in {"none", "ok"}

\* Lines 175, 268 and 345-425: the components each pipeline asks for.
Asked(mode) ==
    IF mode = "restore" THEN {"RestoreRamDisk", "RestoreKernelCache"}
    ELSE {"iBSS", "iBEC", "StaticTrustCache", "DeviceTree", "KernelCache", "RestoreRamDisk"}

\* One invocation: the command line and what it finds on the machine.
\*   mode      -r or -b (argparse lets exactly one through)
\*   board     -d as typed
\*   LINUX     sys.platform == 'linux'
\*   DEBUG     the module's DEBUG switch
\*   deps      every program of program_list is on PATH
\*   ipsw/blob the file exists
\*   identifier  -id was given
\*   keys      the decryption parameters the key provider returns a value
\*             for, the others being empty (boot only)
Configs ==
    {c \in [mode : {"restore", "boot"}, board : SeqsUpTo(BoardAlphabet, MaxBoardLen),
            legacy : BOOLEAN, kpp : BOOLEAN, skip_baseband : BOOLEAN,
            extra : ExtraArgs, identifier : BOOLEAN,
            LINUX : BOOLEAN, DEBUG : BOOLEAN, deps : BOOLEAN,
            ipsw : BOOLEAN, blob : BOOLEAN, keys : KeySets,
            manifest : Manifests] :
        \* what the other pipeline alone reads is left at one value
        /\ c.mode = "restore" => c.keys = KeyNames /\ c.identifier
        /\ c.mode = "boot" => ~c.skip_baseband
        /\ \A comp \in Components \ DOMAIN c.manifest[Len(c.manifest)].comps :
              comp \in Asked(c.mode)
        \* and so is what the pipelines alone read, when main enters neither
        /\ ~Enters(c) =>
             /\ c.keys = KeyNames /\ ~c.legacy /\ ~c.kpp /\ ~c.skip_baseband /\ ~c.LINUX
             /\ c.board = <<"a">>
             /\ c.manifest = <<Identity(<<"b", "1">>, "other", {}), Identity(<<"a", "1">>, "fw", {})>>
        \* and so is what the pipelines read only after a component resolved,
        \* when the manifest has no identity for the board
        /\ (Enters(c) /\ \A i \in 1..Len(c.manifest) :
                            Lower(c.manifest[i].board) # Lower(c.board)) =>
             ~c.legacy /\ ~c.kpp /\ ~c.skip_baseband /\ ~c.LINUX /\ c.extra = "none"}

\* What the user's auxiliary archive unpacks to.
Tarball ==
    (<<usr>> :> DirNode) @@ (<<usr, bin>> :> DirNode)
        @@ (<<usr, bin, tool>> :> FileNode(<<6,4,4>>))
        @@ (<<usr, bin, dotrc>> :> FileNode(<<6,4,4>>))

\* The staging directory as os.mkdir leaves it: the root alone.
EmptyTree == (<<>> :> DirNode)

\* Directories of the stock ramdisk image.
StockDirs == {<<>>, <<usr>>, <<usr, sbin>>, <<usr, local>>, <<usr, local, bin>>}

\* Return statuses subprocess.run reports: success, failure, death by a
\* signal (negative).
RetCodes == {-11, 0, 1}

\* Answers at the prompt.
Answers == {"y", "Y", "n", ""}

VARIABLES
    cfg,          \* the invocation
    flow,         \* "none", "restore", "boot"; "sync" in the harness specification
    pc,           \* "main", "flow", "sync_dirs", "sync_files", "exited"
    ip,           \* position in main or in the flow's program
    ins,          \* the step of the program the flow is at
    boardconfig,  \* main's boardconfig after the cast
    vals,         \* the pipeline's resolved component paths
    exitStatus,   \* -1 while running
    disk,         \* where a working directory exists: "tmp" (mkdtemp), "root" (moved)
    trap,         \* the directory atexit's cleanup is registered for, or "none"
    errors,       \* messages of print_error
    log,          \* argument vectors handed to subprocess.run, in order
    last,         \* status and ignore_errors of the latest execute call
    staging,      \* the tree under {work}/ramdisk
    dmg,          \* {work}/ramdisk.dmg exists
    image,        \* directories inside ramdisk.dmg
    todo,         \* entries the running glob has not yielded yet
    at,           \* the entry the running glob yielded last
    scandir,      \* the order os.scandir lists names in
    synced,       \* image directories at the end of each synthesis run
    ask,          \* the answer typed at the prompt, "unasked" before it
    restore_command, \* what restore.command holds, <<>> before it is written
    files,        \* regular files of the working directory, ramdisk.dmg and
                  \* what is under ramdisk/ apart
    pruned        \* the suffix cleanup_trim was called with, "" before the call

vars == <<cfg, flow, pc, ip, ins, boardconfig, vals, exitStatus, disk, trap, errors,
          log, last, staging, dmg, image, todo, at, scandir, synced, ask,
          restore_command, files, pruned>>

\* ---------------------------------------------------------------- programs

W(s) == "{work}/" \o s

Dmg == W("ramdisk.dmg")

Exec(argv) == [k |-> "exec", argv |-> argv, needs |-> "", eff |-> ""]

ExecEff(argv, eff) == [k |-> "exec", argv |-> argv, needs |-> "", eff |-> eff]

\* An execute whose argument vector is built with + from a resolved path.
ExecNeeds(argv, needs) == [k |-> "exec", argv |-> argv, needs |-> needs, eff |-> ""]

Step(k) == [k |-> k, argv |-> <<>>, needs |-> "", eff |-> ""]

\* var = manifest.get_comp(boardconfig, comp)
Resolve(var, comp) == [k |-> "get_comp", argv |-> <<var, comp>>, needs |-> "", eff |-> ""]

\* The same followed by the `== None` check that reports and exits.
ResolveOrDie(var, comp) == [k |-> "get_comp", argv |-> <<var, comp>>, needs |-> "", eff |-> "die"]

Cat(v) == IF v = None THEN "None" ELSE v

KppArgs(c) == IF c.kpp THEN <<"--extra", W("kpp.bin")>> ELSE <<>>

Extra(c) == "extra.tar.gz"

\* Lines 200-207 and 433-439: unpack the auxiliary archive, grow the image.
UnpackAndGrow(c) ==
    <<ExecEff(<<"tar", "-C", W("ramdisk/"), "-xf", Extra(c)>>, "tar"),
      IF c.LINUX THEN Exec(<<"hfsplus", Dmg, "grow", "500000000">>)
                 ELSE Exec(<<"hdiutil", "resize", "-size", "5120MB", Dmg>>)>>

RE == "/usr/local/bin/restored_external"

\* Lines 228-247: the restored_external leg, skipped in legacy mode.
PatchRestoredExternal(c) ==
    IF c.legacy THEN <<>>
    ELSE <<Exec(<<"restored_external64_patcher", W("ramdisk" \o RE), W("restored_external_patched")>>),
           Exec(<<"ldid", "-e", W("ramdisk" \o RE)>>),
           Exec(<<"ldid", "-S" \o W("restored_external.plist"), W("restored_external_patched")>>),
           Exec(<<"chmod", "-R", "755", W("restored_external_patched")>>),
           Exec(<<"cp", W("restored_external_patched"), W("ramdisk" \o RE)>>)>>

\* ------------------------------------------------------ working directory

\* The characters of the file names and suffixes the program handles.
Chars ==
    ("patched_asr" :> <<"p", "a", "t", "c", "h", "e", "d", "_", "a", "s", "r">>) @@
    ("asr.plist" :> <<"a", "s", "r", ".", "p", "l", "i", "s", "t">>) @@
    ("restored_external_patched" :> <<"r", "e", "s", "t", "o", "r", "e", "d", "_", "e", "x", "t", "e", "r", "n", "a", "l", "_", "p", "a", "t", "c", "h", "e", "d">>) @@
    ("restored_external.plist" :> <<"r", "e", "s", "t", "o", "r", "e", "d", "_", "e", "x", "t", "e", "r", "n", "a", "l", ".", "p", "l", "i", "s", "t">>) @@
    ("ramdisk.im4p" :> <<"r", "a", "m", "d", "i", "s", "k", ".", "i", "m", "4", "p">>) @@
    ("kcache.raw" :> <<"k", "c", "a", "c", "h", "e", ".", "r", "a", "w">>) @@
    ("kpp.bin" :> <<"k", "p", "p", ".", "b", "i", "n">>) @@
    ("krnl.patched" :> <<"k", "r", "n", "l", ".", "p", "a", "t", "c", "h", "e", "d">>) @@
    ("krnl.im4p" :> <<"k", "r", "n", "l", ".", "i", "m", "4", "p">>) @@
    ("ibss.dmg" :> <<"i", "b", "s", "s", ".", "d", "m", "g">>) @@
    ("ibec.dmg" :> <<"i", "b", "e", "c", ".", "d", "m", "g">>) @@
    ("ibss.patched" :> <<"i", "b", "s", "s", ".", "p", "a", "t", "c", "h", "e", "d">>) @@
    ("ibec.patched" :> <<"i", "b", "e", "c", ".", "p", "a", "t", "c", "h", "e", "d">>) @@
    ("ibss.img4" :> <<"i", "b", "s", "s", ".", "i", "m", "g", "4">>) @@
    ("ibec.img4" :> <<"i", "b", "e", "c", ".", "i", "m", "g", "4">>) @@
    ("devicetree.img4" :> <<"d", "e", "v", "i", "c", "e", "t", "r", "e", "e", ".", "i", "m", "g", "4">>) @@
    ("trustcache.img4" :> <<"t", "r", "u", "s", "t", "c", "a", "c", "h", "e", ".", "i", "m", "g", "4">>) @@
    ("krnlboot.patched" :> <<"k", "r", "n", "l", "b", "o", "o", "t", ".", "p", "a", "t", "c", "h", "e", "d">>) @@
    ("krnlboot.im4p" :> <<"k", "r", "n", "l", "b", "o", "o", "t", ".", "i", "m", "4", "p">>) @@
    ("krnlboot.img4" :> <<"k", "r", "n", "l", "b", "o", "o", "t", ".", "i", "m", "g", "4">>) @@
    ("ramdisk.img4" :> <<"r", "a", "m", "d", "i", "s", "k", ".", "i", "m", "g", "4">>) @@
    ("ramdisk.dmg" :> <<"r", "a", "m", "d", "i", "s", "k", ".", "d", "m", "g">>) @@
    ("BuildManifest.plist" :> <<"B", "u", "i", "l", "d", "M", "a", "n", "i", "f", "e", "s", "t", ".", "p", "l", "i", "s", "t">>) @@
    ("restore.command" :> <<"r", "e", "s", "t", "o", "r", "e", ".", "c", "o", "m", "m", "a", "n", "d">>) @@
    ("im4p" :> <<"i", "m", "4", "p">>) @@
    ("img4" :> <<"i", "m", "g", "4">>) @@
    ("RestoreRamDisk" :> <<"R", "e", "s", "t", "o", "r", "e", "R", "a", "m", "D", "i", "s", "k">>) @@
    ("RestoreKernelCache" :> <<"R", "e", "s", "t", "o", "r", "e", "K", "e", "r", "n", "e", "l", "C", "a", "c", "h", "e">>) @@
    ("iBSS" :> <<"i", "B", "S", "S">>) @@
    ("iBEC" :> <<"i", "B", "E", "C">>) @@
    ("DeviceTree" :> <<"D", "e", "v", "i", "c", "e", "T", "r", "e", "e">>) @@
    ("StaticTrustCache" :> <<"S", "t", "a", "t", "i", "c", "T", "r", "u", "s", "t", "C", "a", "c", "h", "e">>) @@
    ("KernelCache" :> <<"K", "e", "r", "n", "e", "l", "C", "a", "c", "h", "e">>)

\* Files the tools are told to write at the top of the working directory
\* (ramdisk.dmg, which has its own variable, apart).
OutputNames ==
    {"patched_asr", "asr.plist", "restored_external_patched", "restored_external.plist",
     "ramdisk.im4p", "kcache.raw", "kpp.bin", "krnl.patched",
     "krnl.im4p", "ibss.dmg", "ibec.dmg", "ibss.patched",
     "ibec.patched", "ibss.img4", "ibec.img4", "devicetree.img4",
     "trustcache.img4", "krnlboot.patched", "krnlboot.im4p", "krnlboot.img4",
     "ramdisk.img4"}

\* Tools that take the file to write as their second operand.
Patchers == {"asr64_patcher", "restored_external64_patcher", "Kernel64Patcher",
             "iBoot64Patcher"}

\* Lines 214-216 and 236-238: the file open() creates around ldid -e.
Entitlements(binary) ==
    IF binary = W("ramdisk/usr/sbin/asr") THEN "asr.plist" ELSE "restored_external.plist"

\* What a command that execute let pass leaves at the top of the working
\* directory, whole or cut short: the operand of -o, the kpp.bin of --extra,
\* the second operand of a patcher, the entitlements file of ldid -e.
Outputs(argv) ==
    {n \in OutputNames :
        \/ \E j \in 1..(Len(argv) - 1) : argv[j] \in {"-o", "--extra"} /\ argv[j + 1] = W(n)
        \/ argv[1] \in Patchers /\ argv[3] = W(n)
        \/ argv[1] = "ldid" /\ argv[2] = "-e" /\ n = Entitlements(argv[3])}

\* Lines 168-169 and 329-330: what z.extractall leaves: the manifest and the
\* files it names.
BundleFiles(c) ==
    {"BuildManifest.plist"}
        \cup UNION {{c.manifest[i].comps[comp] : comp \in DOMAIN c.manifest[i].comps} :
                       i \in 1..Len(c.manifest)}

\* os.path.basename of a file of the working directory.
basename(fn) ==
    LET comps == {comp \in Components : \E t \in {"fw", "other"} : fn = CompPath(t, comp)}
    IN IF comps = {} THEN fn ELSE CHOOSE comp \in comps : TRUE

\* Line 64: the filter of cleanup_trim, a file is listed for removal unless
\* its name ends with the suffix.
Listed(name, suffix) == ~EndsWith(name, suffix)

\* Lines 64-71 on the top of the working directory: what os.remove leaves.
Kept(fs, suffix) == {fn \in fs : ~Listed(Chars[basename(fn)], Chars[suffix])}

\* Lines 64-71 below ramdisk/: glob's ** and * match no hidden name, and
\* os.remove fails on a directory (the failure is passed over).
Pruned(tree, suffix) ==
    LET gone == {p \in GlobAll(tree) : /\ p # <<>>
                                       /\ tree[p].kind # "dir"
                                       /\ Listed(p[Len(p)], Chars[suffix])}
    IN [p \in DOMAIN tree \ gone |-> tree[p]]

\* cleanup_trim(work, suffix)
Trim(suffix) == [k |-> "trim", argv |-> <<suffix>>, needs |-> "", eff |-> ""]

\* Lines 185-198: make asr and restored_external available to the patchers.
MountRamdisk(c) ==
    IF c.LINUX
    THEN <<Step("makedirs"),
           ExecEff(<<"hfsplus", Dmg, "extract", "/usr/sbin/asr", W("ramdisk/usr/sbin/asr")>>, "asr"),
           ExecEff(<<"hfsplus", Dmg, "extract", RE, W("ramdisk" \o RE)>>, "restored_external"),
           Exec(<<"hfsplus", Dmg, "rm", "/usr/sbin/asr">>),
           Exec(<<"hfsplus", Dmg, "rm", RE>>)>>
    ELSE <<Exec(<<"hdiutil", "attach", Dmg, "-mountpoint", W("ramdisk")>>)>>

\* The same with the image sealed before anything is written back.
DetachRamdiskSealedFirst(c) ==
    <<Exec(<<"python3", "-m", "pyimg4", "im4p", "create", "-i", Dmg,
             "-o", W("ramdisk.im4p"), "-f", "rdsk">>)>>
    \o (IF c.LINUX
        THEN (IF c.extra # "none" THEN <<Step("sync")>> ELSE <<>>)
             \o <<Exec(<<"hfsplus", Dmg, "add", W("ramdisk/usr/sbin/asr"), "/usr/sbin/asr">>),
                  Exec(<<"hfsplus", Dmg, "add", W("ramdisk" \o RE), RE>>),
                  Exec(<<"hfsplus", Dmg, "chmod", "100755", "/usr/sbin/asr">>),
                  Exec(<<"hfsplus", Dmg, "chmod", "100755", RE>>)>>
        ELSE <<ExecEff(<<"hdiutil", "detach", W("ramdisk")>>, "detach")>>)

\* Lines 251-262: write the staging tree back into the image.
DetachRamdisk(c) ==
    IF c.LINUX
    THEN (IF c.extra # "none" THEN <<Step("sync")>> ELSE <<>>)
         \o <<Exec(<<"hfsplus", Dmg, "add", W("ramdisk/usr/sbin/asr"), "/usr/sbin/asr">>),
              Exec(<<"hfsplus", Dmg, "add", W("ramdisk" \o RE), RE>>),
              Exec(<<"hfsplus", Dmg, "chmod", "100755", "/usr/sbin/asr">>),
              Exec(<<"hfsplus", Dmg, "chmod", "100755", RE>>)>>
    ELSE <<ExecEff(<<"hdiutil", "detach", W("ramdisk")>>, "detach")>>

\* The same with the check for None moved behind the extraction.
ResolveRamdiskLate(c, v) ==
    <<Step("mkdtemp"), Step("unzip"),
      Resolve("ramdisk_path", "RestoreRamDisk"),
      ExecEff(<<"img4", "-i", W(Cat(v.ramdisk_path)), "-o", Dmg>>, "dmg"),
      ResolveOrDie("ramdisk_path", "RestoreRamDisk")>>

\* Lines 158-182: the working directory, the bundle, the ramdisk component
\* (checked before anything runs) and its extraction.
ResolveRamdisk(c, v) ==
    <<Step("mkdtemp"), Step("unzip"),
      ResolveOrDie("ramdisk_path", "RestoreRamDisk"),
      ExecEff(<<"img4", "-i", W(Cat(v.ramdisk_path)), "-o", Dmg>>, "dmg")>>

\* prep_restore, lines 158-317, as the sequence of its steps; v holds the
\* paths resolved so far.
prep_restore(c, v) ==
    ResolveRamdisk(c, v)
    \o MountRamdisk(c)
    \o (IF c.extra # "none" THEN UnpackAndGrow(c) ELSE <<>>)
    \o <<Exec(<<"asr64_patcher", W("ramdisk/usr/sbin/asr"), W("patched_asr")>>),
         Exec(<<"ldid", "-e", W("ramdisk/usr/sbin/asr")>>),
         Exec(<<"ldid", "-S" \o W("asr.plist"), W("patched_asr")>>),
         Exec(<<"chmod", "-R", "755", W("patched_asr")>>),
         Exec(<<"cp", W("patched_asr"), W("ramdisk/usr/sbin/asr")>>)>>
    \o PatchRestoredExternal(c)
    \o DetachRamdisk(c)
    \o <<Exec(<<"python3", "-m", "pyimg4", "im4p", "create", "-i", Dmg,
                "-o", W("ramdisk.im4p"), "-f", "rdsk">>),
         Resolve("kernelcache", "RestoreKernelCache"),
         ExecNeeds(<<"python3", "-m", "pyimg4", "im4p", "extract", "-i",
                     W(Cat(v.kernelcache)), "-o", W("kcache.raw")>> \o KppArgs(c),
                   v.kernelcache),
         Exec(<<"Kernel64Patcher", W("kcache.raw"), W("krnl.patched"), "-f", "-a">>),
         Exec(<<"python3", "-m", "pyimg4", "im4p", "create", "-i", W("krnl.patched"),
                "-o", W("krnl.im4p"), "-f", "rkrn", "--lzss">> \o KppArgs(c)),
         Trim("im4p"), Step("move"), Step("write_command"), Step("ask"),
         Step("return")>>

\* One parameter as api.get_keys returns it: empty when unknown.
KeyValue(c, name) == IF name \in c.keys THEN name ELSE ""

\* Lines 350 and 354: ibss_iv + ibss_key, ibec_iv + ibec_key.
Keys(c, loader) == KeyValue(c, loader \o "_iv") \o KeyValue(c, loader \o "_key")

\* Lines 422-449: the auxiliary ramdisk of the boot pipeline.
BootRamdisk(c, v) ==
    IF c.extra = "none" THEN <<>>
    ELSE <<ResolveOrDie("ramdisk_path", "RestoreRamDisk"),
           ExecEff(<<"img4", "-i", W(Cat(v.ramdisk_path)), "-o", Dmg>>, "dmg")>>
         \o UnpackAndGrow(c)
         \o <<IF c.LINUX THEN Step("sync")
                         ELSE ExecEff(<<"hdiutil", "detach", W("ramdisk")>>, "detach"),
              Exec(<<"img4", "-i", Dmg, "-o", W("ramdisk.img4"), "-M", "IM4M",
                     "-A", "-T", "rdsk">>)>>

\* The trust cache signed whether legacy or not.
SignTrustCacheAlways(c, v) ==
    <<ExecNeeds(<<"img4", "-i", W(Cat(v.trustcache)), "-o", W("trustcache.img4"),
                  "-M", "IM4M", "-T", "rtsc">>, v.trustcache)>>

\* Lines 386-389: the trust cache is signed unless legacy.
SignTrustCache(c, v) ==
    IF c.legacy THEN <<>>
    ELSE <<ExecNeeds(<<"img4", "-i", W(Cat(v.trustcache)), "-o", W("trustcache.img4"),
                       "-M", "IM4M", "-T", "rtsc">>, v.trustcache)>>

\* prep_boot, lines 319-466.
prep_boot(c, v) ==
    <<Step("mkdtemp"), Step("unzip"), Step("get_keys"),
      Resolve("ibss", "iBSS"), Resolve("ibec", "iBEC"),
      ExecNeeds(<<"img4", "-i", W(Cat(v.ibss)), "-o", W("ibss.dmg"), "-k", Keys(c, "ibss")>>, v.ibss),
      ExecNeeds(<<"img4", "-i", W(Cat(v.ibec)), "-o", W("ibec.dmg"), "-k", Keys(c, "ibec")>>, v.ibec),
      Exec(<<"iBoot64Patcher", W("ibss.dmg"), W("ibss.patched")>>),
      Exec(<<"iBoot64Patcher", W("ibec.dmg"), W("ibec.patched"), "-n", "-b", "-v ">>),
      Exec(<<"img4tool", "-e", "-s", "blob", "-m", "IM4M">>),
      Exec(<<"img4", "-i", W("ibss.patched"), "-o", W("ibss.img4"), "-M", "IM4M", "-A", "-T", "ibss">>),
      Exec(<<"img4", "-i", W("ibec.patched"), "-o", W("ibec.img4"), "-M", "IM4M", "-A", "-T", "ibec">>),
      Resolve("trustcache", IF c.legacy THEN "" ELSE "StaticTrustCache"),
      Resolve("devicetree", "DeviceTree"),
      ExecNeeds(<<"img4", "-i", W(Cat(v.devicetree)), "-o", W("devicetree.img4"),
                  "-M", "IM4M", "-T", "rdtr">>, v.devicetree)>>
    \o SignTrustCache(c, v)
    \o <<Resolve("kernelcache", "KernelCache"),
         ExecNeeds(<<"python3", "-m", "pyimg4", "im4p", "extract", "-i",
                     W(Cat(v.kernelcache)), "-o", W("kcache.raw")>> \o KppArgs(c),
                   v.kernelcache),
         Exec(<<"Kernel64Patcher", W("kcache.raw"), W("krnlboot.patched"), "-f",
                IF c.extra # "none" THEN "-a" ELSE "">>),
         Exec(<<"python3", "-m", "pyimg4", "im4p", "create", "-i", W("krnlboot.patched"),
                "-o", W("krnlboot.im4p"), "-f", "rkrn", "--lzss">> \o KppArgs(c)),
         Exec(<<"python3", "-m", "pyimg4", "img4", "create", "-p", W("krnlboot.im4p"),
                "-o", W("krnlboot.img4"), "-m", "IM4M">>)>>
    \o BootRamdisk(c, v)
    \o <<Trim("img4"), Step("move"), Step("return")>>

\* The harness of SpecSync: the synthesis alone, run MaxRuns times.
sync_runs == [i \in 1..MaxRuns |-> Step("sync")] \o <<Step("return")>>

\* The step at position i of flow f's program.
At(f, c, v, i) ==
    LET prog == CASE f = "restore" -> prep_restore(c, v)
                  [] f = "boot" -> prep_boot(c, v)
                  [] f = "sync" -> sync_runs
                  [] OTHER -> <<>>
    IN IF i <= Len(prog) THEN prog[i] ELSE Step("none")

\* ------------------------------------------------------------- the gateway

\* execute, lines 100-103: a status above 0 ends the run unless the caller
\* asked to ignore errors.
Fatal(rc, ignore_errors) == rc > 0 /\ ~ignore_errors

\* cleanup(directory), lines 52-60.
cleanup(d, directory) == IF cfg.DEBUG THEN d ELSE d \ {directory}

\* sys.exit(status), and an uncaught exception (status 1): the registered
\* atexit handler runs, then the process ends.
Exit(status) ==
    /\ pc' = "exited"
    /\ exitStatus' = status
    /\ disk' = IF trap = "none" THEN disk ELSE cleanup(disk, trap)
    /\ ins' = Step("none")
    /\ UNCHANGED <<ip, trap>>

\* The flow goes on to its next step, with v the paths resolved.
AdvanceWith(v) ==
    /\ pc' = "flow"
    /\ ip' = ip + 1
    /\ ins' = At(flow, cfg, v, ip + 1)

Advance ==
    /\ AdvanceWith(vals)
    /\ UNCHANGED <<exitStatus, disk, trap>>

\* execute(argv, ignore_errors) returning status rc: the call is logged and
\* a status above 0 reported.
Ran(argv, ignore_errors, rc) ==
    /\ log' = Append(log, argv)
    /\ last' = [rc |-> rc, ignore |-> ignore_errors]
    /\ errors' = IF rc > 0 THEN errors \cup {"returned non-zero"} ELSE errors

\* -------------------------------------------------------------------- main

\* Line 493, check_for_dependencies (lines 77-86).
CheckDependencies ==
    /\ pc = "main" /\ ip = 1
    /\ IF cfg.deps
       THEN /\ pc' = pc /\ ip' = 2
            /\ UNCHANGED <<ins, exitStatus, disk, trap, errors>>
       ELSE /\ errors' = errors \cup {"not found, please install it."}
            /\ Exit(1)
    /\ UNCHANGED <<cfg, files, pruned, ask, restore_command, flow, boardconfig, vals, log, last,
                   staging, dmg, image, todo, at, scandir, synced>>

\* Lines 495-506: the casts; the board config is lower-cased.
CastArguments ==
    /\ pc = "main" /\ ip = 2
    /\ boardconfig' = Lower(cfg.board)
    /\ ip' = 3
    /\ UNCHANGED <<cfg, files, pruned, ask, restore_command, flow, pc, ins, vals, exitStatus,
                   disk, trap, errors, log, last, staging, dmg, image, todo, at, scandir, synced>>

\* The checks without the one for the identifier.
ArgumentErrorNoIdentifier(c) ==
    IF ~c.ipsw THEN "IPSW doesn't exist"
    ELSE IF ~c.blob THEN "Blob doesn't exist"
    ELSE IF c.extra # "none" /\ (c.extra = "missing" \/ c.extra = "badname")
         THEN "Extra ramdisk must be in the $file.tar.gz format"
    ELSE ""

\* Lines 508-522: the message of the first check that fails, "" when none does.
ArgumentError(c) ==
    IF ~c.ipsw THEN "IPSW doesn't exist"
    ELSE IF ~c.blob THEN "Blob doesn't exist"
    ELSE IF c.mode = "boot" /\ ~c.identifier THEN "You need to specify an identifier (--identifier)"
    ELSE IF c.extra # "none" /\ (c.extra = "missing" \/ c.extra = "badname")
         THEN "Extra ramdisk must be in the $file.tar.gz format"
    ELSE ""

CheckArguments ==
    /\ pc = "main" /\ ip = 3
    /\ IF ArgumentError(cfg) = ""
       THEN /\ pc' = pc /\ ip' = 4
            /\ UNCHANGED <<ins, exitStatus, disk, trap, errors>>
       ELSE /\ errors' = errors \cup {ArgumentError(cfg)}
            /\ Exit(1)
    /\ UNCHANGED <<cfg, files, pruned, ask, restore_command, flow, boardconfig, vals, log, last,
                   staging, dmg, image, todo, at, scandir, synced>>

\* Lines 524-531: one pipeline is entered.
Dispatch ==
    /\ pc = "main" /\ ip = 4
    /\ IF cfg.mode = "restore" \/ cfg.mode = "boot"
       THEN /\ flow' = cfg.mode
            /\ pc' = "flow" /\ ip' = 1
            /\ ins' = At(cfg.mode, cfg, vals, 1)
            /\ UNCHANGED <<exitStatus, disk, trap, errors>>
       ELSE /\ errors' = errors \cup {"No mode selected (this is a bug)"}
            /\ Exit(1)
            /\ UNCHANGED flow
    /\ UNCHANGED <<cfg, files, pruned, ask, restore_command, boardconfig, vals, log, last,
                   staging, dmg, image, todo, at, scandir, synced>>

\* Line 533: sys.exit(0) once the pipeline has returned.
ExitOk ==
    /\ pc = "main" /\ ip = 5
    /\ Exit(0)
    /\ UNCHANGED <<cfg, files, pruned, ask, restore_command, flow, boardconfig, vals, errors, log,
                   last, staging, dmg, image, todo, at, scandir, synced>>

\* --------------------------------------------------------------- pipelines

\* Lines 160-164 and 321-325: mkdtemp, the ramdisk directory, the trap.
MakeWorkDir ==
    /\ pc = "flow" /\ ins.k = "mkdtemp"
    /\ disk' = disk \cup {"tmp"}
    /\ trap' = "tmp"
    /\ staging' = EmptyTree
    /\ AdvanceWith(vals)
    /\ UNCHANGED <<cfg, files, pruned, ask, restore_command, flow, boardconfig, vals, exitStatus,
                   errors, log, last, dmg, image, todo, at, scandir, synced>>

\* Lines 166-173 and 327-333: the bundle is unpacked and its manifest read;
\* a bundle that is no archive, or holds no manifest, raises.
ExtractIPSW ==
    /\ pc = "flow" /\ ins.k = "unzip"
    /\ \E ok \in BOOLEAN :
         IF ok THEN Advance /\ files' = files \cup BundleFiles(cfg)
               ELSE Exit(1) /\ UNCHANGED files
    /\ UNCHANGED <<cfg, pruned, ask, restore_command, flow, boardconfig, vals, errors, log, last,
                   staging, dmg, image, todo, at, scandir, synced>>

\* Lines 175-178, 268, 345-346, 379-380, 393, 425-428: one component is
\* resolved; the ramdisk's absence is reported and ends the run.
GetComp ==
    /\ pc = "flow" /\ ins.k = "get_comp"
    /\ LET var == ins.argv[1]
           comp == ins.argv[2]
           val == IF comp = "" THEN None ELSE get_comp(cfg.manifest, boardconfig, comp)
       IN /\ vals' = [vals EXCEPT ![var] = val]
          /\ IF ins.eff = "die" /\ val = None
             THEN /\ errors' = errors \cup {"Error: BoardConfig was not recognized"}
                  /\ Exit(1)
             ELSE /\ AdvanceWith([vals EXCEPT ![var] = val])
                  /\ UNCHANGED <<exitStatus, disk, trap, errors>>
    /\ UNCHANGED <<cfg, files, pruned, ask, restore_command, flow, boardconfig, log, last,
                   staging, dmg, image, todo, at, scandir, synced>>

\* A warning about the keys that ends the run.
missing_keys_abort == TRUE

\* Lines 340-341: no sys.exit follows the warning about the keys.
missing_keys_exit == FALSE

KeyWarning == "Possible incorrect identifier or boardconfig"

\* Lines 335-341: the keys are fetched; an empty one is only reported.
GetKeys ==
    /\ pc = "flow" /\ ins.k = "get_keys"
    /\ IF cfg.keys = KeyNames
       THEN Advance /\ UNCHANGED errors
       ELSE /\ errors' = errors \cup {KeyWarning}
            /\ IF missing_keys_exit THEN Exit(1) ELSE Advance
    /\ UNCHANGED <<cfg, files, pruned, ask, restore_command, flow, boardconfig, vals, log, last,
                   staging, dmg, image, todo, at, scandir, synced>>

\* Lines 187-188: os.makedirs of the two directories the extracts write to.
MakeDirs ==
    /\ pc = "flow" /\ ins.k = "makedirs"
    /\ staging' = staging @@ (<<usr>> :> DirNode) @@ (<<usr, sbin>> :> DirNode)
                    @@ (<<usr, local>> :> DirNode) @@ (<<usr, local, bin>> :> DirNode)
    /\ Advance
    /\ UNCHANGED <<cfg, files, pruned, ask, restore_command, flow, boardconfig, vals, errors, log,
                   last, dmg, image, todo, at, scandir, synced>>

\* What a command that ended with status 0 leaves in the staging tree; the
\* volume takes what was written to it along when it leaves the mount point.
Staged(eff, tree) ==
    CASE eff = "asr" -> (<<usr, sbin, asr>> :> FileNode(<<6,4,4>>)) @@ tree
      [] eff = "restored_external" ->
            (<<usr, local, bin, restored_external>> :> FileNode(<<6,4,4>>)) @@ tree
      [] eff = "tar" -> Tarball @@ tree
      [] eff = "detach" -> EmptyTree
      [] OTHER -> tree

\* A path built the way an f-string builds it: None is spelled out.
ConcatFormats(needs) == FALSE

\* Lines 275, 350, 354, 384, 389 and 397: f'{work}/' + None raises TypeError.
ConcatRaises(needs) == needs = None

\* One stage: execute(argv) of the step the flow is at. Building the argument
\* vector with + from an unresolved path raises TypeError.
Execute ==
    /\ pc = "flow" /\ ins.k = "exec"
    /\ IF ConcatRaises(ins.needs)
       THEN /\ Exit(1)
            /\ UNCHANGED <<errors, log, last, staging, dmg, files>>
       ELSE \E rc \in RetCodes :
            /\ Ran(ins.argv, FALSE, rc)
            /\ IF Fatal(rc, FALSE)
               THEN /\ Exit(1)
                    /\ UNCHANGED <<staging, dmg, files>>
               ELSE /\ Advance
                    /\ files' = files \cup Outputs(ins.argv)
                    /\ staging' = IF rc = 0 THEN Staged(ins.eff, staging) ELSE staging
                    /\ dmg' = (dmg \/ (rc = 0 /\ ins.eff = "dmg"))
    /\ UNCHANGED <<cfg, pruned, ask, restore_command, flow, boardconfig, vals, image, todo, at,
                   scandir, synced>>

\* Lines 291 and 451, cleanup_trim (lines 62-71): nothing is removed in debug
\* mode.
CleanupTrim ==
    /\ pc = "flow" /\ ins.k = "trim"
    /\ pruned' = ins.argv[1]
    /\ IF cfg.DEBUG
       THEN UNCHANGED <<files, staging, dmg>>
       ELSE /\ files' = Kept(files, ins.argv[1])
            /\ staging' = Pruned(staging, ins.argv[1])
            /\ dmg' = (dmg /\ ~Listed(Chars["ramdisk.dmg"], Chars[ins.argv[1]]))
    /\ Advance
    /\ UNCHANGED <<cfg, ask, restore_command, flow, boardconfig, vals, errors, log, last,
                   image, todo, at, scandir, synced>>

\* Lines 295-296 and 454-455: the working directory moves next to the
\* program; the trap keeps the path it was registered with.
MoveFiles ==
    /\ pc = "flow" /\ ins.k = "move"
    /\ disk' = (disk \ {"tmp"}) \cup {"root"}
    /\ AdvanceWith(vals)
    /\ UNCHANGED <<cfg, files, pruned, ask, restore_command, flow, boardconfig, vals, exitStatus,
                   trap, errors, log, last, staging, dmg, image, todo, at, scandir, synced>>

\* Line 299: the restore command; the artifacts are named by their place after
\* the move.
futurerestore_args(c) ==
    <<"futurerestore", "-t", "blob", "--use-pwndfu", "--skip-blob", "--rdsk",
      "{root}/ramdisk.im4p", "--rkrn", "{root}/krnl.im4p", "--latest-sep",
      IF c.skip_baseband THEN "--no-baseband" ELSE "--latest-baseband", "ipsw">>

\* Lines 299-307: the restore command is printed and written to restore.command.
WriteCommand ==
    /\ pc = "flow" /\ ins.k = "write_command"
    /\ restore_command' = futurerestore_args(cfg)
    /\ files' = files \cup {"restore.command"}
    /\ Advance
    /\ UNCHANGED <<cfg, pruned, ask, flow, boardconfig, vals, errors, log, last, staging, dmg,
                   image, todo, at, scandir, synced>>

\* An answer that accepts only the lower-case y.
AcceptsLowerOnly(answer) == answer = "y"

\* Line 311: the answers that start the restore.
Accepts(answer) == answer = "y" \/ answer = "Y"

\* Lines 310-312: the prompt, and the restore when the answer is y or Y.
AskRestore ==
    /\ pc = "flow" /\ ins.k = "ask"
    /\ \E answer \in Answers :
         /\ ask' = answer
         /\ IF Accepts(answer)
            THEN \E rc \in RetCodes :
                   /\ Ran(futurerestore_args(cfg), FALSE, rc)
                   /\ IF Fatal(rc, FALSE) THEN Exit(1) ELSE Advance
            ELSE /\ Advance
                 /\ UNCHANGED <<errors, log, last>>
    /\ UNCHANGED <<cfg, files, pruned, restore_command, flow, boardconfig, vals, staging, dmg,
                   image, todo, at, scandir, synced>>

\* Lines 315-317 and 464-466: the trap is removed and the pipeline returns.
Return ==
    /\ pc = "flow" /\ ins.k = "return"
    /\ trap' = "none"
    /\ pc' = "main" /\ ip' = 5
    /\ ins' = Step("none")
    /\ UNCHANGED <<cfg, files, pruned, ask, restore_command, flow, boardconfig, vals, exitStatus,
                   disk, errors, log, last, staging, dmg, image, todo, at, scandir, synced>>

\* --------------------------------------------------------- image synthesis

\* Every name of the trees, in one listing order.
AllNames == <<usr, sbin, bin, libexec, cabin, lib, local, dotcfg, tool, dotrc,
              asr, restored_external>>

Reverse(q) == [i \in 1..Len(q) |-> q[Len(q) + 1 - i]]

\* Where scandir lists the last name of p.
Rank(p) == IF p = <<>> THEN 0 ELSE CHOOSE i \in 1..Len(scandir) : scandir[i] = p[Len(p)]

\* A walk that yields the deepest entries first.
NextEntryDeepestFirst(remaining, yielded) ==
    CHOOSE p \in remaining : \A q \in remaining : Len(q) <= Len(p)

\* The entry the running glob yields next.
NextEntry(remaining, yielded) ==
    CHOOSE p \in GlobNext(remaining, yielded) :
        \A q \in GlobNext(remaining, yielded) : Rank(p) <= Rank(q)

\* A mkdir call that does not ignore errors.
mkdir_strict == FALSE

\* ignore_errors of the mkdir call, line 129.
mkdir_ignore_errors == TRUE

\* Link, add and chmod calls that do not ignore errors.
content_strict == FALSE

\* ignore_errors of the link, add and chmod calls, lines 151-156.
content_ignore_errors == TRUE

\* Lines 118-120: the precondition; then the directory glob starts.
SyncStart ==
    /\ pc = "flow" /\ ins.k = "sync"
    /\ IF ~(<<>> \in DOMAIN staging /\ dmg)
       THEN /\ errors' = errors \cup {"Missing ramdisk or ramdisk.dmg (this is a bug)"}
            /\ Exit(1)
            /\ UNCHANGED <<todo, at>>
       ELSE /\ pc' = "sync_dirs"
            /\ todo' = GlobDirs(staging)
            /\ at' = <<>>
            /\ UNCHANGED <<ip, ins, exitStatus, disk, trap, errors>>
    /\ UNCHANGED <<cfg, files, pruned, ask, restore_command, flow, boardconfig, vals, log, last,
                   staging, dmg, image, scandir, synced>>

\* Lines 123-129: one directory of the first loop. hfsplus mkdir makes a
\* directory that is not in the image and whose parent is, and fails otherwise.
SyncMkdir ==
    /\ pc = "sync_dirs" /\ todo # {}
    /\ LET directory == NextEntry(todo, at)
           path == Str(WithSlash(relpath(directory)))
           made == directory \notin image /\ Parent(directory) \in image
       IN \E rc \in RetCodes :
            /\ (rc = 0) <=> made
            /\ Ran(<<"hfsplus", Dmg, "mkdir", path>>, mkdir_ignore_errors, rc)
            /\ IF Fatal(rc, mkdir_ignore_errors)
               THEN /\ Exit(1)
                    /\ UNCHANGED <<image, todo, at>>
               ELSE /\ image' = IF rc = 0 THEN image \cup {directory} ELSE image
                    /\ todo' = todo \ {directory}
                    /\ at' = directory
                    /\ UNCHANGED <<pc, ip, ins, exitStatus, disk, trap>>
    /\ UNCHANGED <<cfg, files, pruned, ask, restore_command, flow, boardconfig, vals, staging,
                   dmg, scandir, synced>>

\* Lines 123 and 132: the first loop ends, the second glob starts.
SyncDirsDone ==
    /\ pc = "sync_dirs" /\ todo = {}
    /\ pc' = "sync_files"
    /\ todo' = GlobAll(staging)
    /\ at' = <<>>
    /\ UNCHANGED <<cfg, files, pruned, ask, restore_command, flow, ip, ins, boardconfig, vals,
                   exitStatus, disk, trap, errors, log, last, staging, dmg, image, scandir,
                   synced>>

\* Lines 132-156: one entry of the second loop.
SyncContent ==
    /\ pc = "sync_files" /\ todo # {}
    /\ LET file == NextEntry(todo, at)
           node == staging[file]
           perm == permission(dirname(file), node.mode)
           path == Str(WithSlash(relpath(file)))
           place == IF islink(node)
                    THEN <<"hfsplus", Dmg, "link", path, node.target>>
                    ELSE <<"hfsplus", Dmg, "add", W("ramdisk/") \o Str(relpath(file)), path>>
           chmod == <<"hfsplus", Dmg, "chmod", DigitStr(perm), path>>
           go == /\ todo' = todo \ {file}
                 /\ at' = file
                 /\ UNCHANGED <<pc, ip, ins, exitStatus, disk, trap>>
       IN IF isdir(node)
          THEN /\ go
               /\ UNCHANGED <<errors, log, last>>
          ELSE \E rc1, rc2 \in RetCodes :
               IF Fatal(rc1, content_ignore_errors)
               THEN /\ Ran(place, content_ignore_errors, rc1)
                    /\ Exit(1)
                    /\ UNCHANGED <<todo, at>>
               ELSE /\ log' = log \o <<place, chmod>>
                    /\ last' = [rc |-> rc2, ignore |-> content_ignore_errors]
                    /\ errors' = IF rc1 > 0 \/ rc2 > 0
                                 THEN errors \cup {"returned non-zero"} ELSE errors
                    /\ IF Fatal(rc2, content_ignore_errors)
                       THEN Exit(1) /\ UNCHANGED <<todo, at>>
                       ELSE go
    /\ UNCHANGED <<cfg, files, pruned, ask, restore_command, flow, boardconfig, vals, staging,
                   dmg, image, scandir, synced>>

\* Line 132: the second loop ends and linux_hfsplus_sync returns.
SyncDone ==
    /\ pc = "sync_files" /\ todo = {}
    /\ AdvanceWith(vals)
    /\ synced' = Append(synced, image)
    /\ UNCHANGED <<cfg, files, pruned, ask, restore_command, flow, boardconfig, vals, exitStatus,
                   disk, trap, errors, log, last, staging, dmg, image, todo, at, scandir>>

\* ---------------------------------------------------------- specifications

Unresolved == [ramdisk_path |-> "", kernelcache |-> "", ibss |-> "", ibec |-> "",
               devicetree |-> "", trustcache |-> ""]

\* The process as main starts.
Init ==
    /\ cfg \in Configs
    /\ flow = "none"
    /\ pc = "main"
    /\ ip = 1
    /\ ins = Step("none")
    /\ boardconfig = <<>>
    /\ vals = Unresolved
    /\ exitStatus = -1
    /\ disk = {}
    /\ trap = "none"
    /\ errors = {}
    /\ log = <<>>
    /\ last = [rc |-> 0, ignore |-> FALSE]
    /\ staging = EmptyTree
    /\ dmg = FALSE
    /\ image = StockDirs
    /\ todo = {}
    /\ at = <<>>
    /\ scandir = AllNames
    /\ synced = <<>>
    /\ ask = "unasked"
    /\ restore_command = <<>>
    /\ files = {}
    /\ pruned = ""

Next ==
    \/ CheckDependencies
    \/ CastArguments
    \/ CheckArguments
    \/ Dispatch
    \/ ExitOk
    \/ MakeWorkDir
    \/ ExtractIPSW
    \/ GetComp
    \/ GetKeys
    \/ MakeDirs
    \/ Execute
    \/ CleanupTrim
    \/ MoveFiles
    \/ WriteCommand
    \/ AskRestore
    \/ Return
    \/ SyncStart
    \/ SyncMkdir
    \/ SyncDirsDone
    \/ SyncContent
    \/ SyncDone

Spec == Init /\ [][Next]_vars

\* Staging trees of the synthesis harness: usr/<d>/<f>.
ParentNames == {sbin, bin, libexec, cabin, lib, dotcfg}

EntryNames == {tool, dotrc}

EntryNodes ==
    {FileNode(perm) : perm \in {<<6,4,4>>, <<7,5,5>>, <<7,0,0>>, <<4,7,5,5>>, <<2,7,5,5>>}}
    \cup {LinkNode("../lib/libfoo.so", "file"), LinkNode("versions", "dir"),
          LinkNode("gone", "none"), DirNode}

Chain(d, f, node) ==
    (<<>> :> DirNode) @@ (<<usr>> :> DirNode) @@ (<<usr, d>> :> DirNode)
        @@ (<<usr, d, f>> :> node)

\* usr/bin/tool -> ../lib/libfoo.so beside usr/lib/tool.
Forked ==
    Chain(bin, tool, LinkNode("../lib/libfoo.so", "file"))
        @@ (<<usr, lib>> :> DirNode) @@ (<<usr, lib, tool>> :> FileNode(<<6,4,4>>))

SyncTrees ==
    {Chain(d, f, node) : d \in ParentNames, f \in EntryNames, node \in EntryNodes}
        \cup {Forked}

\* The invocation the harness runs under: Linux, cleanup not suppressed.
SyncConfig ==
    [mode |-> "restore", board |-> <<"a", "1">>, legacy |-> FALSE, kpp |-> FALSE,
     skip_baseband |-> FALSE, extra |-> "ok", identifier |-> TRUE, LINUX |-> TRUE,
     DEBUG |-> FALSE, deps |-> TRUE, ipsw |-> TRUE, blob |-> TRUE, keys |-> KeyNames,
     manifest |-> <<Identity(<<"a", "1">>, "fw", {})>>]

\* linux_hfsplus_sync entered with a staging tree and an image, MaxRuns times.
InitSync ==
    /\ cfg = SyncConfig
    /\ flow = "sync"
    /\ pc = "flow"
    /\ ip = 1
    /\ ins = Step("sync")
    /\ boardconfig = <<"a", "1">>
    /\ vals = Unresolved
    /\ exitStatus = -1
    /\ disk = {"tmp"}
    /\ trap = "tmp"
    /\ errors = {}
    /\ log = <<>>
    /\ last = [rc |-> 0, ignore |-> FALSE]
    /\ staging \in SyncTrees
    /\ dmg \in BOOLEAN
    /\ image \in {{<<>>}, StockDirs}
    /\ todo = {}
    /\ at = <<>>
    /\ scandir \in {AllNames, Reverse(AllNames)}
    /\ synced = <<>>
    /\ ask = "unasked"
    /\ restore_command = <<>>
    /\ files = {}
    /\ pruned = ""

NextSync ==
    \/ SyncStart
    \/ SyncMkdir
    \/ SyncDirsDone
    \/ SyncContent
    \/ SyncDone
    \/ Return
    \/ ExitOk

SpecSync == InitSync /\ [][NextSync]_vars

\* ------------------------------------------------------------------ claims

\* The board's identity in the manifest (the second; the first is another board's).
BoardIdentity == cfg.manifest[Len(cfg.manifest)]

\* Two strings that differ at most in letter case.
SameUpToCase(a, b) ==
    /\ Len(a) = Len(b)
    /\ \A i \in 1..Len(a) : LowerChar(a[i]) = LowerChar(b[i])

\* The manifest's entry for the typed board, read off the manifest directly.
ManifestPath(comp) ==
    IF SameUpToCase(cfg.board, BoardIdentity.board) /\ comp \in DOMAIN BoardIdentity.comps
    THEN BoardIdentity.comps[comp]
    ELSE None

BoardNotRecognized == "Error: BoardConfig was not recognized"

\* C1: in the restore pipeline, whenever RestoreRamDisk cannot be resolved for
\* the board config, the run reports "BoardConfig was not recognized" and has
\* exited with status 1, and no external tool was handed to execute at any
\* point of that run.
C1_UnresolvedRamdiskExitsBeforeAnyTool ==
    /\ (flow = "restore" /\ vals.ramdisk_path = None) =>
          /\ pc = "exited"
          /\ exitStatus = 1
          /\ BoardNotRecognized \in errors
          /\ log = <<>>
    /\ (flow = "restore" /\ ManifestPath("RestoreRamDisk") = None) => log = <<>>

\* C1 witness: a restore run that ended on the unresolved ramdisk.
C1_Witness ==
    /\ flow = "restore"
    /\ vals.ramdisk_path = None
    /\ pc = "exited"
    /\ BoardNotRecognized \in errors

\* Arguments that name the restored_external executable, in the image, in the
\* staging tree or as its patched copy.
RestoredExternalPaths ==
    {RE, W("ramdisk" \o RE), W("restored_external_patched"),
     "-S" \o W("restored_external.plist")}

\* C2: with legacy set, the restore pipeline runs no external command that
\* reads, extracts, removes, patches, re-signs, adds or chmods
\* restored_external, on either platform.
C2_LegacyNeverTouchesRestoredExternal ==
    (flow = "restore" /\ cfg.legacy) =>
        \A i \in 1..Len(log) : \A j \in 1..Len(log[i]) : log[i][j] \notin RestoredExternalPaths

\* The image path the synthesis uses for entry p.
ImagePath(p) == Str(<<"/">> \o JoinChars(p))

\* Log entries of the synthesis for entry p.
ChmodsOf(p) ==
    {i \in 1..Len(log) : Len(log[i]) = 5 /\ log[i][3] = "chmod" /\ log[i][5] = ImagePath(p)}

LinksOf(p) ==
    {i \in 1..Len(log) : Len(log[i]) = 5 /\ log[i][3] = "link" /\ log[i][4] = ImagePath(p)}

AddsOf(p) ==
    {i \in 1..Len(log) : Len(log[i]) = 5 /\ log[i][3] = "add" /\ log[i][5] = ImagePath(p)}

MkdirsOf(p) ==
    {i \in 1..Len(log) : Len(log[i]) = 4 /\ log[i][3] = "mkdir" /\ log[i][4] = ImagePath(p)}

\* Non-directory entries of the staging tree directly under bin, sbin or libexec.
BinaryEntries ==
    {p \in DOMAIN staging : /\ Len(p) >= 2
                            /\ staging[p].kind # "dir"
                            /\ p[Len(p) - 1] \in {bin, sbin, libexec}}

\* The permission bits of a mode, setuid, setgid and sticky included.
PermBits(mode) == mode % 4096

\* The four octal digits of the permission bits.
Perm4(mode) == <<(mode \div 512) % 8>> \o Last3(mode)

\* The synthesis has run once to its end.
SyncedOnce == Len(synced) = 1 /\ pc = "flow"

\* C3: an entry under bin, sbin or libexec whose captured mode carries setuid
\* or setgid bits is chmod'ed with a mode that keeps them (04755 stays 04755,
\* with or without the regular-file prefix).
C3_SetuidBitsKept ==
    \A p \in BinaryEntries :
        PermBits(staging[p].mode) \div 1024 # 0 =>
            \A i \in ChmodsOf(p) :
                log[i][4] \in {DigitStr(Perm4(staging[p].mode)),
                               DigitStr(<<1,0>> \o Perm4(staging[p].mode))}

\* C4: after a synthesis run, every non-directory entry under bin, sbin or
\* libexec whose captured mode is numerically below 0755 has been chmod'ed, and
\* only with mode 100755.
C4_WeakModesEscalated ==
    SyncedOnce =>
        \A p \in BinaryEntries :
            PermBits(staging[p].mode) < OctVal(<<7,5,5>>) =>
                /\ ChmodsOf(p) # {}
                /\ \A i \in ChmodsOf(p) : log[i][4] = "100755"

\* C5: after a synthesis run, every symlink of the staging tree has been placed
\* by exactly one link operation at its path with its target, and by no add and
\* no mkdir.
C5_SymlinksPlacedAsLinks ==
    SyncedOnce =>
        \A p \in DOMAIN staging :
            staging[p].kind = "link" =>
                /\ Cardinality(LinksOf(p)) = 1
                /\ \A i \in LinksOf(p) : log[i][5] = staging[p].target
                /\ AddsOf(p) = {}
                /\ MkdirsOf(p) = {}

\* C6: the directory pass is idempotent: every later run of the synthesis on
\* the same staging tree leaves the image with the directories the first run
\* left; in a later run every mkdir fails and is tolerated; and no run aborts
\* once the precondition check has passed.
C6_DirectoryPassIdempotent ==
    /\ \A i \in 1..Len(synced) : synced[i] = synced[1]
    /\ (Len(synced) >= 1 /\ pc = "sync_dirs" /\ todo # GlobDirs(staging)) =>
          (last.rc # 0 /\ last.ignore)
    /\ (pc = "exited" /\ exitStatus = 1) => (~dmg /\ log = <<>>)

\* C6 witness: the second run has ended after the first made directories.
C6_Witness ==
    /\ Len(synced) = 2
    /\ <<usr, bin>> \in synced[1]
    /\ MkdirsOf(<<usr, bin>>) # {}

\* The component each pipeline variable is resolved from.
ComponentOf(f, var) ==
    CASE var = "ramdisk_path" -> "RestoreRamDisk"
      [] var = "kernelcache" -> IF f = "restore" THEN "RestoreKernelCache" ELSE "KernelCache"
      [] var = "ibss" -> "iBSS"
      [] var = "ibec" -> "iBEC"
      [] var = "devicetree" -> "DeviceTree"
      [] OTHER -> "StaticTrustCache"

\* C7: board-config resolution is case-insensitive end to end: in both
\* pipelines, whenever the typed board differs from the manifest's board key at
\* most in letter case, every component the pipeline has resolved is the path
\* the manifest gives under that key (or None when the manifest lacks it).
C7_ResolutionIgnoresCase ==
    (flow \in {"restore", "boot"} /\ SameUpToCase(cfg.board, BoardIdentity.board)) =>
        \A var \in DOMAIN vals :
            (vals[var] # "" /\ ~(var = "trustcache" /\ cfg.legacy)) =>
                vals[var] = ManifestPath(ComponentOf(flow, var))

\* C7 witness: the boot pipeline resolved the kernel for a board typed in
\* another case than the manifest's key.
C7_Witness ==
    /\ flow = "boot"
    /\ cfg.board # BoardIdentity.board
    /\ SameUpToCase(cfg.board, BoardIdentity.board)
    /\ cfg.board # Lower(cfg.board)
    /\ vals.kernelcache = CompPath("fw", "KernelCache")

\* One of main's fatal preconditions fails for the invocation.
PreconditionFails ==
    \/ ~cfg.deps
    \/ ~cfg.ipsw
    \/ ~cfg.blob
    \/ (cfg.mode = "boot" /\ ~cfg.identifier)
    \/ cfg.extra \in {"missing", "badname"}

\* The pipeline ran to its end and returned to main (lines 315 and 464 remove
\* the trap last).
Returned == flow \in {"restore", "boot"} /\ trap = "none" /\ pc \in {"main", "exited"}

\* C8: when a fatal precondition fails, neither pipeline is started, no
\* working directory is created, no external tool is run, and the process exits
\* with status 1; when none fails, only the selected pipeline runs and a run
\* that completes it exits with status 0.
C8_PreconditionsGateThePipelines ==
    /\ PreconditionFails =>
          /\ flow = "none" /\ disk = {} /\ log = <<>> /\ trap = "none"
          /\ pc = "exited" => exitStatus = 1
    /\ ~PreconditionFails =>
          /\ flow \in {"none", cfg.mode}
          /\ pc = "exited" => flow = cfg.mode
          /\ pc = "exited" => (exitStatus = 0 <=> Returned)
          /\ pc # "exited" => exitStatus = -1

\* C8 witness: a boot invocation without identifier has exited.
C8_Witness ==
    /\ cfg.mode = "boot" /\ ~cfg.identifier
    /\ cfg.deps /\ cfg.ipsw /\ cfg.blob /\ cfg.extra = "ok"
    /\ pc = "exited"

\* C9: a run that aborts after its working directory was created ends with no
\* working directory on disk when debug mode is off, at whatever stage it
\* aborts (the restore execution after the relocation included), and with the
\* directory kept when debug mode is on.
C9_AbortRemovesWorkingDirectory ==
    (pc = "exited" /\ exitStatus = 1 /\ flow \in {"restore", "boot"}) =>
        IF cfg.DEBUG THEN disk # {} ELSE disk = {}

\* C10: an execute call without ignore_errors whose program ended with any
\* status other than 0 ends the run with status 1 before another command runs.
C10_NonZeroStatusAborts ==
    (~last.ignore /\ last.rc # 0) => (pc = "exited" /\ exitStatus = 1)

\* Positions in the log of the restore executor's invocations.
FutureRestores == {i \in 1..Len(log) : log[i][1] = "futurerestore"}

\* C11: at the end of the restore pipeline futurerestore is run if and only if
\* the answer at the prompt is y or Y, and at most once, with exactly the
\* command restore.command holds; after any other answer the run ends with
\* status 0 and the relocated artifacts on disk; restore.command is written
\* before the prompt whatever the answer.
C11_RestoreOnlyOnConfirmation ==
    flow = "restore" =>
        /\ FutureRestores # {} <=> ask \in {"y", "Y"}
        /\ Cardinality(FutureRestores) <= 1
        /\ \A i \in FutureRestores : log[i] = restore_command
        /\ (pc = "flow" /\ ins.k = "ask") =>
              (restore_command = futurerestore_args(cfg) /\ disk = {"root"})
        /\ ask # "unasked" => restore_command = futurerestore_args(cfg)
        /\ ask \notin {"y", "Y", "unasked"} =>
              /\ disk = {"root"}
              /\ pc = "exited" => exitStatus = 0

\* C11 witness: the upper-case Y started the restore, and the run has ended.
C11_Witness ==
    /\ flow = "restore" /\ ask = "Y" /\ pc = "exited"
    /\ Cardinality(FutureRestores) = 1

\* Entries the content loop places: what its glob yields, directories aside.
Placed == {p \in GlobAll(staging) : ~isdir(staging[p])}

\* C12: once the precondition check of the synthesis has passed, no failing
\* mkdir, add, link or chmod ends the run: the only exit with status 1 is the
\* precondition's, before any command; a pass that is under way goes on; and at
\* the end of a run every directory and entry the loops iterate has had its
\* operations issued and the caller is at its next step.
C12_SynthesisToleratesFailures ==
    /\ (pc = "exited" /\ exitStatus = 1) => (log = <<>> /\ synced = <<>>)
    /\ pc \in {"sync_dirs", "sync_files"} => exitStatus = -1
    /\ (pc = "flow" /\ synced # <<>>) =>
          /\ ip = Len(synced) + 1
          /\ \A p \in GlobDirs(staging) : Cardinality(MkdirsOf(p)) = Len(synced)
          /\ \A p \in Placed :
                /\ Cardinality(LinksOf(p) \cup AddsOf(p)) = Len(synced)
                /\ Cardinality(ChmodsOf(p)) = Len(synced)

\* C12 witness: a run came to its end although the mkdir of usr (a directory
\* the image already had) and the last chmod failed.
C12_Witness ==
    /\ pc = "flow" /\ Len(synced) = 1
    /\ <<usr, local>> \in image /\ MkdirsOf(<<usr>>) # {}
    /\ last.rc = 1 /\ last.ignore
    /\ "returned non-zero" \in errors
    /\ Placed # {}

\* The stage of the restore pipeline a command belongs to:
\*   2 the ramdisk is extracted        3 its contents are made available
\*     (attach, or extract and rm), auxiliary content unpacked, image grown
\*   4 asr and restored_external are patched, re-signed, copied back
\*   5 the contents are written back (detach, or synthesis, add and chmod)
\*   6 the ramdisk is sealed   7 the kernel is extracted   8 patched
\*   9 sealed                  12 the restore runs
\* (1 the bundle's extraction, 10 the relocation and 11 the prompt run no
\* command.)
RestoreStage(argv) ==
    CASE argv[1] = "img4" -> 2
      [] argv[1] = "hdiutil" -> IF argv[2] = "detach" THEN 5 ELSE 3
      [] argv[1] = "tar" -> 3
      [] argv[1] = "hfsplus" -> IF argv[3] \in {"extract", "rm", "grow"} THEN 3 ELSE 5
      [] argv[1] \in {"asr64_patcher", "restored_external64_patcher", "ldid", "chmod", "cp"} -> 4
      [] argv[1] = "python3" ->
            IF argv[5] = "extract" THEN 7 ELSE IF argv[7] = Dmg THEN 6 ELSE 9
      [] argv[1] = "Kernel64Patcher" -> 8
      [] argv[1] = "futurerestore" -> 12
      [] OTHER -> 0

\* Positions in the log of the commands of stage n.
StageAt(n) == {i \in 1..Len(log) : RestoreStage(log[i]) = n}

\* The log holds a command with these first and last arguments, before position i.
IssuedBefore(i, first, final) ==
    \E j \in 1..(i - 1) : log[j][1] = first /\ log[j][Len(log[j])] = final

\* Stage b may follow stage a: the same stage goes on (the stages of several
\* commands), or the next one starts; the restore follows the kernel's sealing
\* (the relocation and the prompt run no command).
Follows(a, b) ==
    \/ a = b /\ a \in {3, 4, 5}
    \/ b = a + 1 /\ b <= 9
    \/ a = 9 /\ b = 12

\* C13: the restore pipeline's commands are issued stage by stage in the fixed
\* order, starting with the ramdisk's extraction: no stage is skipped, gone
\* back to or, for the one-command stages, repeated, so the kernel stages come
\* after the ramdisk's sealing; the ramdisk is sealed only after the patched asr
\* (and, unless legacy, the patched restored_external) was copied back and the
\* contents written back to the image; the relocation comes after the kernel is
\* sealed, and the prompt and the restore after the relocation.
C13_RestoreStagesInOrder ==
    flow = "restore" =>
        /\ log # <<>> => RestoreStage(log[1]) = 2
        /\ \A i \in 1..(Len(log) - 1) :
              Follows(RestoreStage(log[i]), RestoreStage(log[i + 1]))
        /\ \A i \in 1..Len(log) :
              (log[i][1] = "python3" /\ RestoreStage(log[i]) = 6) =>
                  /\ IssuedBefore(i, "cp", W("ramdisk/usr/sbin/asr"))
                  /\ ~cfg.legacy => IssuedBefore(i, "cp", W("ramdisk" \o RE))
                  /\ IF cfg.LINUX THEN IssuedBefore(i, "hfsplus", "/usr/sbin/asr")
                                  ELSE IssuedBefore(i, "hdiutil", W("ramdisk"))
        /\ "root" \in disk =>
              /\ "tmp" \notin disk
              /\ \E i \in 1..Len(log) : log[i][1] = "python3" /\ RestoreStage(log[i]) = 9
        /\ (restore_command # <<>> \/ ask # "unasked") => "root" \in disk
        /\ (log # <<>> /\ log[Len(log)][1] = "futurerestore") => ask # "unasked"

\* C13 witness: a restore on Linux with auxiliary content, not legacy, went
\* through every stage and the restore ran.
C13_Witness ==
    /\ flow = "restore" /\ cfg.LINUX /\ cfg.extra = "ok" /\ ~cfg.legacy
    /\ pc = "exited" /\ exitStatus = 0
    /\ \A n \in {2, 3, 4, 5, 6, 7, 8, 9, 12} : StageAt(n) # {}
    /\ last.rc = 0

\* The boot pipeline is past, or ended in, the decrypt stage of the first loader.
FirstDecryptDone == ip > 6 \/ (ip = 6 /\ pc = "exited")

\* C14: in the boot pipeline, when the key provider returns an empty value for
\* any of the four parameters, the keys step warns and does not end the run,
\* and, the first loader being resolved, the first decrypt command is run with
\* the key value as returned (empty when both of its parameters are).
C14_MissingKeysOnlyWarn ==
    (flow = "boot" /\ cfg.keys # KeyNames) =>
        /\ ip >= 4 => KeyWarning \in errors
        /\ pc = "exited" => ip # 3
        /\ (FirstDecryptDone /\ vals.ibss # None) =>
              /\ log # <<>>
              /\ SubSeq(log[1], 1, 6) = <<"img4", "-i", W(vals.ibss), "-o", W("ibss.dmg"), "-k">>
              /\ log[1][7] = KeyValue(cfg, "ibss_iv") \o KeyValue(cfg, "ibss_key")
              /\ cfg.keys = {} => log[1][7] = ""

\* C14 witness: with no key known, both loaders were handed to img4 with the
\* empty key and the pipeline went on.
C14_Witness ==
    /\ flow = "boot" /\ cfg.keys = {}
    /\ KeyWarning \in errors
    /\ Len(log) >= 3
    /\ log[1][7] = "" /\ log[2][7] = ""

\* The command at position i of the log signs a component with tag.
Signs(i, tag) == log[i][1] = "img4" /\ log[i][Len(log[i])] = tag

\* The command at position i of the log prepares the kernel.
PreparesKernel(i) == log[i][1] \in {"python3", "Kernel64Patcher"}

\* The run ended on a command that failed, on the bundle's extraction, or on
\* the synthesis' precondition.
AbortedElsewhere ==
    \/ last.rc > 0 /\ ~last.ignore
    \/ ip = 2
    \/ "Missing ramdisk or ramdisk.dmg (this is a bug)" \in errors

\* C15: in the boot pipeline with legacy, StaticTrustCache is never resolved
\* and no trust-cache signing is run, and a manifest that lacks only
\* StaticTrustCache makes no run abort; without legacy the trust cache is
\* signed at most once, after the device tree and before any kernel command,
\* and no kernel command runs before it was signed.
C15_LegacySkipsTrustCache ==
    flow = "boot" =>
        IF cfg.legacy
        THEN /\ vals.trustcache \in {"", None}
             /\ \A i \in 1..Len(log) : ~Signs(i, "rtsc")
             /\ (/\ pc = "exited" /\ exitStatus = 1
                 /\ SameUpToCase(cfg.board, BoardIdentity.board)
                 /\ Components \ DOMAIN BoardIdentity.comps \subseteq {"StaticTrustCache"})
                    => AbortedElsewhere
        ELSE /\ \A i, j \in 1..Len(log) : (Signs(i, "rtsc") /\ Signs(j, "rtsc")) => i = j
             /\ \A i \in 1..Len(log) :
                   Signs(i, "rtsc") =>
                       /\ \E j \in 1..(i - 1) : Signs(j, "rdtr")
                       /\ \A j \in 1..(i - 1) : ~PreparesKernel(j)
             /\ \A i \in 1..Len(log) :
                   PreparesKernel(i) => \E j \in 1..(i - 1) : Signs(j, "rtsc")

\* C15 witness: a legacy boot run on a manifest without StaticTrustCache came
\* to its end.
C15_Witness ==
    /\ flow = "boot" /\ cfg.legacy
    /\ "StaticTrustCache" \notin DOMAIN BoardIdentity.comps
    /\ pc = "exited" /\ exitStatus = 0
    /\ \E i \in 1..Len(log) : Signs(i, "rdtr")

\* The command at position i of the log attaches, or detaches, the ramdisk image.
Attaches(i) == log[i][1] = "hdiutil" /\ log[i][2] = "attach"

Detaches(i) == log[i][1] = "hdiutil" /\ log[i][2] = "detach"

\* The command at position i of the log unpacks the auxiliary archive.
Unpacks(i) == log[i][1] = "tar"

\* C16: with an auxiliary archive the boot pipeline treats the ramdisk image
\* as the restore pipeline does on the same platform: in both, every detach has
\* an attach before it, and on the native-mount platform the auxiliary archive
\* is unpacked only after the image was attached (so that it lands in the
\* image); on the other platform the synthesis writes it back.
C16_BootRamdiskAsRestore ==
    (flow \in {"restore", "boot"} /\ cfg.extra = "ok") =>
        /\ \A i \in 1..Len(log) : Detaches(i) => \E j \in 1..(i - 1) : Attaches(j)
        /\ ~cfg.LINUX =>
              \A i \in 1..Len(log) : Unpacks(i) => \E j \in 1..(i - 1) : Attaches(j)
        /\ cfg.LINUX => \A i \in 1..Len(log) : ~Attaches(i) /\ ~Detaches(i)

\* The paths above p, the staging root aside.
Ancestors(p) == {SubSeq(p, 1, n) : n \in 1..(Len(p) - 1)}

\* The first synthesis run is under way or has just ended.
FirstRun == synced = <<>> \/ SyncedOnce

\* C17: in a synthesis run every mkdir is issued before the first add or link;
\* the mkdir of a nested directory has the mkdir of its parent before it; so
\* every add or link has, before it, a mkdir for each directory above its
\* destination.
C17_DirectoriesBeforeContents ==
    FirstRun =>
        /\ \A i, j \in 1..Len(log) :
              (log[i][3] = "mkdir" /\ log[j][3] \in {"add", "link"}) => i < j
        /\ \A p \in DOMAIN staging :
              \A i \in MkdirsOf(p) :
                  Len(p) >= 2 => \E j \in MkdirsOf(Parent(p)) : j < i
        /\ \A p \in DOMAIN staging :
              \A i \in AddsOf(p) \cup LinksOf(p) :
                  \A q \in Ancestors(p) : \E j \in MkdirsOf(q) : j < i

\* C17 witness: a file and a symlink two directories down were placed after
\* the directories above them were made.
C17_Witness ==
    /\ SyncedOnce
    /\ AddsOf(<<usr, lib, tool>>) # {} /\ LinksOf(<<usr, bin, tool>>) # {}
    /\ MkdirsOf(<<usr>>) # {} /\ MkdirsOf(<<usr, bin>>) # {} /\ MkdirsOf(<<usr, lib>>) # {}

\* C18: a synthesis run issues a mkdir for every directory of the staging tree
\* below the root, empty ones and those with a dot name included, with the
\* path relative to the root behind a leading separator, and places every
\* entry that is no directory.
C18_EveryNodeVisited ==
    SyncedOnce =>
        \A p \in DOMAIN staging \ {<<>>} :
            IF staging[p].kind = "dir"
            THEN MkdirsOf(p) # {}
            ELSE AddsOf(p) \cup LinksOf(p) # {}

\* The command at position i of the log places an entry; where it places it.
Places(i) == log[i][3] \in {"add", "link"}

Destination(i) == IF log[i][3] = "link" THEN log[i][4] ELSE log[i][5]

\* C19: in the content pass every add or link is directly followed by one
\* chmod of the same destination, whatever the add or link returned, and no
\* chmod is issued otherwise.
C19_ChmodFollowsEachPlacement ==
    \A i \in 1..Len(log) :
        /\ Places(i) =>
              /\ i < Len(log)
              /\ log[i + 1][3] = "chmod"
              /\ log[i + 1][5] = Destination(i)
              /\ i + 2 <= Len(log) => log[i + 2][3] # "chmod"
        /\ log[i][3] = "chmod" => (i > 1 /\ Places(i - 1))

\* C19 witness: every mkdir succeeded, the one placement so far failed, and
\* its chmod was run and succeeded.
C19_Witness ==
    /\ pc = "sync_files" /\ synced = <<>>
    /\ <<usr, local>> \notin image
    /\ "returned non-zero" \in errors
    /\ last.rc = 0
    /\ log # <<>> /\ log[Len(log)][3] = "chmod"
    /\ \A i, j \in 1..Len(log) : (Places(i) /\ Places(j)) => i = j

\* The strings that denote the permission bits of mode to chmod: four octal
\* digits, with or without the regular-file prefix, or three when the
\* setuid, setgid and sticky bits are clear.
ModeStrings(mode) ==
    {DigitStr(Perm4(mode)), DigitStr(<<1, 0>> \o Perm4(mode))}
        \cup (IF PermBits(mode) < 512 THEN {DigitStr(Last3(mode))} ELSE {})

\* C20: an entry whose parent directory is not named bin, sbin or libexec (a
\* name that only ends in those letters, such as cabin, included) is chmod'ed
\* with its captured mode. Stated for the modes without setuid, setgid and
\* sticky bits; what becomes of those bits is C3's matter.
C20_OtherDirectoriesKeepMode ==
    \A p \in DOMAIN staging :
        (/\ Len(p) >= 2
         /\ p[Len(p) - 1] \notin {bin, sbin, libexec}
         /\ PermBits(staging[p].mode) < 512) =>
            \A i \in ChmodsOf(p) : log[i][4] \in ModeStrings(staging[p].mode)

\* The sealed-container extension of the running pipeline.
Extension == IF flow = "restore" THEN "im4p" ELSE "img4"

\* The files of the tools' outputs so far whose name ends with the extension.
SealedArtifacts ==
    {n \in UNION {Outputs(log[i]) : i \in 1..Len(log)} :
        EndsWith(Chars[n], Chars[Extension])}

\* Regular files below ramdisk/, a directory like any other on Linux (on
\* macOS the mount point of the image).
StagedFiles == {p \in DOMAIN staging : staging[p].kind = "file"}

\* C21: with debug mode off, once cleanup_trim has run, every regular file of
\* the working directory (the command file written afterwards apart) has a
\* name ending with the pipeline's extension, im4p for restore and img4 for
\* boot, and every sealed artifact the tools wrote is still there; the
\* directory is relocated only after the pruning, and the restore pipeline
\* writes restore.command after both, into the relocated directory.
C21_PruningKeepsOnlySealedFiles ==
    flow \in {"restore", "boot"} =>
        /\ pruned \in {"", Extension}
        /\ (pruned # "" /\ ~cfg.DEBUG /\ disk # {}) =>
              /\ \A fn \in files \ {"restore.command"} :
                    EndsWith(Chars[basename(fn)], Chars[Extension])
              /\ ~dmg
              /\ cfg.LINUX => \A p \in StagedFiles : EndsWith(p[Len(p)], Chars[Extension])
              /\ SealedArtifacts \subseteq files
        /\ "root" \in disk => pruned # ""
        /\ restore_command # <<>> =>
              /\ flow = "restore" /\ pruned # "" /\ "root" \in disk
              /\ "restore.command" \in files

\* The file the stage that reads the component var writes with -o.
StageOutput(var) ==
    CASE var = "ramdisk_path" -> Dmg
      [] var = "kernelcache" -> W("kcache.raw")
      [] var = "ibss" -> W("ibss.dmg")
      [] var = "ibec" -> W("ibec.dmg")
      [] var = "devicetree" -> W("devicetree.img4")
      [] var = "trustcache" -> W("trustcache.img4")

\* The external tool of the stage of var was handed to execute.
StageStarted(var) ==
    \E i \in 1..Len(log) : \E j \in 1..(Len(log[i]) - 1) :
        log[i][j] = "-o" /\ log[i][j + 1] = StageOutput(var)

\* The component of var was asked for, is absent, and a stage needs it (the
\* trust cache is not asked for in legacy mode).
ResolvedAbsent(var) ==
    /\ vals[var] = None
    /\ ~(var = "trustcache" /\ cfg.legacy)

\* C22: in both pipelines no external command is handed a path built from an
\* absent manifest component: once the resolution of a component a stage needs
\* has returned None, the tool of that stage is never started, the pipeline
\* does not return, and the run that has ended ended with status 1.
C22_NoToolOnUnresolvedComponent ==
    flow \in {"restore", "boot"} =>
        /\ \A i \in 1..Len(log) : \A j \in 1..Len(log[i]) : log[i][j] # W("None")
        /\ \A var \in DOMAIN vals :
              ResolvedAbsent(var) =>
                  /\ ~StageStarted(var)
                  /\ ~Returned
                  /\ pc = "exited" => exitStatus = 1

\* C22 witness: a boot run whose manifest lacks the device tree decrypted and
\* sealed both loaders and ended when the device tree stage built its command.
C22_Witness ==
    /\ flow = "boot"
    /\ vals.devicetree = None
    /\ vals.ibss # None /\ vals.ibec # None
    /\ \E i \in 1..Len(log) : log[i][1] = "img4" /\ log[i][5] = W("ibec.img4")
    /\ pc = "exited"
    /\ exitStatus = 1

====
